---- MODULE Spec2Model ----
(***************************************************************************)
(* Crop price service: the retry-with-backoff wrapper fetchWithBackoff,    *)
(* the GET /get-price/:name handler built on it (retry loop, envelope      *)
(* check, brace slicing, JSON.parse), and the SDK-based variant of the     *)
(* same route in index.js.                                                 *)
(*                                                                         *)
(* A request is a record; every await in the code (fetchFn(), the backoff  *)
(* timer, response.json(), generateContent()) is a point where the request *)
(* is suspended, and one action resumes it and runs the code up to the     *)
(* next await or to the end of the handler.                                *)
(***************************************************************************)
EXTENDS Integers, Sequences, FiniteSets, TLC

VARIABLES env, req

vars == <<env, req>>

(***************************************************************************)
(* Bounds of the model.                                                    *)
(***************************************************************************)
\* number of request slots
NumReqs == 2
\* direct calls of fetchWithBackoff use maxRetries in MinRetries..MaxRetriesBound
MaxRetriesBound == 3
\* generated texts: every string over Chars of at most this length
MaxTextLen == 2

Reqs == 1..NumReqs

(***************************************************************************)
(* Program constants.                                                      *)
(***************************************************************************)
DefaultMaxRetries == 5
DefaultBaseDelay == 1000
JitterBound == 1000

MinRetries == 0 - 1
\* maxRetries of the invocations that run concurrently: one attempt, or one
\* retry
ConcRetries == {1, 2}
BaseDelays == {100, DefaultBaseDelay}
\* Math.random() * 1000, in whole milliseconds
JitterSamples == {0, 500, JitterBound - 1}
\* the ends of the successful range, a redirect left unfollowed, the ends of
\* the client error range, the rate-limit status and a server error
Statuses == {200, 299, 302, 400, 429, 499, 500}

(***************************************************************************)
(* JavaScript values.                                                      *)
(***************************************************************************)
Undefined == [t |-> "undefined"]
Null == [t |-> "null"]
Str(s) == [t |-> "string", s |-> s]
\* a string given by its whole content (messages)
Msg(m) == [t |-> "string", m |-> m]
Num(n) == [t |-> "number", n |-> n]
Obj(f) == [t |-> "object", f |-> f]
Arr(items) == [t |-> "array", items |-> items]
NoFields == <<>>

IsNullish(v) == v.t \in {"undefined", "null"}

\* v.k on an object
Get(v, k) == IF v.t = "object" /\ k \in DOMAIN v.f THEN v.f[k] ELSE Undefined

\* v[i] on an array, i counted from 0
At(v, i) == IF v.t = "array" /\ i + 1 <= Len(v.items) THEN v.items[i + 1] ELSE Undefined

\* v?.k and v?.[i]
OptGet(v, k) == IF IsNullish(v) THEN Undefined ELSE Get(v, k)

OptAt(v, i) == IF IsNullish(v) THEN Undefined ELSE At(v, i)

Truthy(v) ==
    CASE v.t = "undefined" -> FALSE
      [] v.t = "null" -> FALSE
      [] v.t = "string" -> IF "s" \in DOMAIN v THEN v.s # <<>> ELSE v.m # ""
      [] v.t = "number" -> v.n # 0
      [] OTHER -> TRUE

(***************************************************************************)
(* Texts are sequences of characters.                                      *)
(***************************************************************************)
Chars == {"{", "}", "\"", ":", "1"}

RECURSIVE SeqsUpTo(_)
SeqsUpTo(n) ==
    IF n = 0 THEN {<<>>}
    ELSE LET shorter == SeqsUpTo(n - 1)
         IN  shorter \cup {Append(s, c) : s \in {u \in shorter : Len(u) = n - 1}, c \in Chars}

\* longer generated texts: fenced or quoted objects, nesting, braces inside a
\* string literal, two objects, an object with a junk member
SampleTexts ==
    { <<"1", "{", "\"", "1", "\"", ":", "1", "}", "1">>,
      <<"{", "\"", "1", "\"", ":", "{", "}", "}">>,
      <<"{", "\"", "}", "{", "\"", ":", "1", "1", "}">>,
      <<"{", "\"", "\"", ":", "\"", "1", "\"", "}">>,
      <<"{", "}", "{", "}">>,
      <<"{", "{", "}", "}">>,
      <<"{", "1", ":", "1", "}">>,
      <<"{", "\"", "1", "\"", "1", "}">>,
      <<"}", "1", "{">>,
      <<"\"", "{", "\"", "1", "\"", "}", "\"">> }

Texts == SeqsUpTo(MaxTextLen) \cup SampleTexts

\* String.prototype.indexOf(c): index from 0 of the first c, or -1
IndexOf(s, c) ==
    LET hits == {i \in 0..(Len(s) - 1) : s[i + 1] = c}
    IN  IF hits = {} THEN 0 - 1 ELSE CHOOSE i \in hits : \A j \in hits : i <= j

\* String.prototype.lastIndexOf(c): index from 0 of the last c, or -1
LastIndexOf(s, c) ==
    LET hits == {i \in 0..(Len(s) - 1) : s[i + 1] = c}
    IN  IF hits = {} THEN 0 - 1 ELSE CHOOSE i \in hits : \A j \in hits : j <= i

\* String.prototype.substring(from, to), 0 <= from <= to <= length
Substring(s, from, to) == SubSeq(s, from + 1, to)

(***************************************************************************)
(* JSON.parse on texts over Chars.  With this alphabet the JSON grammar is *)
(*   value  ::= object | string | number                                   *)
(*   object ::= "{" "}" | "{" string ":" value "}"                         *)
(*   string ::= '"' (any character but '"')* '"'                           *)
(*   number ::= "1"+                                                       *)
(* (no comma, so no second member; no white space).  A parser result is    *)
(* [ok, val, next]: next is the 1-based position after the value.          *)
(***************************************************************************)
ParseFail == [ok |-> FALSE, val |-> Undefined, next |-> 0]

ParseString(s, i) ==
    IF i > Len(s) \/ s[i] # "\"" THEN ParseFail
    ELSE LET closing == {j \in (i + 1)..Len(s) : s[j] = "\""}
         IN  IF closing = {} THEN ParseFail
             ELSE LET j == CHOOSE k \in closing : \A m \in closing : k <= m
                  IN  [ok |-> TRUE, val |-> Str(SubSeq(s, i + 1, j - 1)), next |-> j + 1]

RECURSIVE DigitsEnd(_, _)
DigitsEnd(s, i) == IF i <= Len(s) /\ s[i] = "1" THEN DigitsEnd(s, i + 1) ELSE i

RECURSIVE Decimal(_)
Decimal(d) == IF d = <<>> THEN 0 ELSE 10 * Decimal(SubSeq(d, 1, Len(d) - 1)) + 1

ParseNumber(s, i) ==
    LET e == DigitsEnd(s, i)
    IN  IF e = i THEN ParseFail
        ELSE [ok |-> TRUE, val |-> Num(Decimal(SubSeq(s, i, e - 1))), next |-> e]

RECURSIVE ParseValue(_, _)
ParseObject(s, i) ==
    IF i > Len(s) \/ s[i] # "{" THEN ParseFail
    ELSE IF i + 1 <= Len(s) /\ s[i + 1] = "}"
         THEN [ok |-> TRUE, val |-> Obj(NoFields), next |-> i + 2]
    ELSE LET key == ParseString(s, i + 1)
         IN  IF ~key.ok \/ key.next > Len(s) \/ s[key.next] # ":" THEN ParseFail
             ELSE LET v == ParseValue(s, key.next + 1)
                  IN  IF ~v.ok \/ v.next > Len(s) \/ s[v.next] # "}" THEN ParseFail
                      ELSE [ok |-> TRUE, val |-> Obj(key.val.s :> v.val), next |-> v.next + 1]

ParseValue(s, i) ==
    IF i > Len(s) THEN ParseFail
    ELSE CASE s[i] = "{" -> ParseObject(s, i)
           [] s[i] = "\"" -> ParseString(s, i)
           [] s[i] = "1" -> ParseNumber(s, i)
           [] OTHER -> ParseFail

\* JSON.parse(s): a value spanning the whole text, or a SyntaxError
JSONParse(s) ==
    LET v == ParseValue(s, 1)
    IN  IF v.ok /\ v.next = Len(s) + 1 THEN v ELSE ParseFail

(***************************************************************************)
(* Messages.                                                               *)
(***************************************************************************)
GenericError == "Failed to fetch from AI service after maximum retries."
TransportError == "fetch failed"
BodySyntaxError == "Unexpected end of JSON input"
ResultTypeError == "Cannot read properties of null (reading 'candidates')"
IndexOfTypeError == "jsonText.indexOf is not a function"
NoObjectError == "Valid JSON object not found in AI response."
ParseSyntaxError == "Unexpected token in JSON"
ConfigMessage == "Server configuration error: AI Key is missing."
SdkConfigMessage == "Server configuration error: AI Key missing."
UpstreamMessage == "Failed to get response from AI service."
ParseMessage == "Failed to parse AI response."
StructureMessage == "AI service returned an invalid response."

StatusText(status) ==
    CASE status = 302 -> "Found"
      [] status = 400 -> "Bad Request"
      [] status = 429 -> "Too Many Requests"
      [] status = 499 -> ""
      [] status = 500 -> "Internal Server Error"
      [] OTHER -> "OK"

ClientError(status) == "Client error: " \o ToString(status) \o " " \o StatusText(status)

(***************************************************************************)
(* What the awaited promises can settle with.                              *)
(***************************************************************************)
\* fetchFn(): a response with a status, or a rejection (transport error)
Outcomes ==
    {[t |-> "response", status |-> s, message |-> ""] : s \in Statuses}
        \cup {[t |-> "throw", status |-> 0, message |-> TransportError]}

Part(text) == Obj([text |-> text])

Candidate(parts) == Obj([content |-> Obj([parts |-> Arr(parts)])])

Envelope(candidates) == Obj([candidates |-> Arr(candidates)])

\* response.json(): a rejection, or one of the envelope shapes
Rejected == [t |-> "reject"]

Bodies ==
    { Rejected,
      Null,
      Obj(NoFields),
      Envelope(<<>>),
      Envelope(<<Null>>),
      Envelope(<<Obj(NoFields)>>),
      Envelope(<<Obj([content |-> Obj(NoFields)])>>),
      Envelope(<<Candidate(<<>>)>>),
      Envelope(<<Candidate(<<Obj(NoFields)>>)>>),
      Envelope(<<Candidate(<<Part(Num(1))>>)>>),
      Envelope(<<Candidate(<<>>), Candidate(<<Part(Str(<<"{", "}">>))>>)>>) }
        \cup {Envelope(<<Candidate(<<Part(Str(s))>>)>>) : s \in Texts}

\* ai.models.generateContent(): a rejection, or a response with or without text
Generated == {Rejected, Obj(NoFields), Obj([text |-> Str(<<"1">>)])}

\* process.env.GEMINI_API_KEY
Keys == {Undefined, Str(<<>>), Str(<<"1">>)}

(***************************************************************************)
(* Requests.                                                               *)
(***************************************************************************)
NoDelay == 0 - 1

NewRequest(kind, maxRetries, baseDelay) ==
    [ kind |-> kind,
      pc |-> IF kind = "absent" THEN "done" ELSE "new",
      maxRetries |-> maxRetries,
      baseDelay |-> baseDelay,
      attempt |-> 0,
      fetchCalls |-> 0,
      sdkCalls |-> 0,
      sleeps |-> 0,
      outcomes |-> <<>>,
      delay |-> NoDelay,
      returned |-> 0,
      thrown |-> "",
      result |-> Undefined,
      jsonText |-> Undefined,
      cleanedJsonText |-> Undefined,
      braceSearches |-> 0,
      parseCalls |-> 0,
      res |-> <<>>,
      console |-> <<>> ]

\* console.log / console.warn / console.error with an optional second argument
Log(q, level, msg, value) ==
    [q EXCEPT !.console = Append(@, [level |-> level, msg |-> msg, value |-> value])]

\* res.status(status).send(body) and res.status(status).json(body)
Send(q, status, body) ==
    [q EXCEPT !.res = Append(@, [status |-> status, body |-> body]), !.pc = "done"]

\* the outer catch answering without the details field
HandlerCatch_NoDetails(q, message) ==
    Send(Log(q, "error", "Gemini API Error:", Msg(message)), 500,
         [error |-> Msg(UpstreamMessage)])

\* the handler's outer catch
HandlerCatch(q, message) ==
    Send(Log(q, "error", "Gemini API Error:", Msg(message)), 500,
         [error |-> Msg(UpstreamMessage), details |-> Msg(message)])

(***************************************************************************)
(* fetchWithBackoff                                                        *)
(***************************************************************************)
\* 2 * attempt in place of Math.pow(2, attempt)
Pow2_Linear(k) == 2 * k

RECURSIVE Pow2(_)
Pow2(k) == IF k <= 0 THEN 1 ELSE 2 * Pow2(k - 1)

\* every status below 400 taken as success
Ok_Below400(status) == status >= 200 /\ status < 400

\* response.ok
Ok(status) == status >= 200 /\ status <= 299

\* fetchWithBackoff throws: into the handler's catch, or to the direct caller
FwbThrow(q, message) ==
    LET q1 == [q EXCEPT !.thrown = message]
    IN  IF q.kind = "getPrice" THEN HandlerCatch(q1, message)
        ELSE [q1 EXCEPT !.pc = "done"]

\* fetchWithBackoff returns the response: the handler goes on to await
\* response.json()
FwbReturn(q, status) ==
    LET q1 == [q EXCEPT !.returned = status]
    IN  IF q.kind = "getPrice" THEN [q1 EXCEPT !.pc = "awaitJson"]
        ELSE [q1 EXCEPT !.pc = "done"]

\* the while condition written attempt <= maxRetries
LoopHead_Inclusive(q) ==
    IF q.attempt <= q.maxRetries
    THEN [q EXCEPT !.fetchCalls = @ + 1, !.pc = "awaitFetch"]
    ELSE FwbThrow(q, GenericError)

\* the while condition, then fetchFn() or the throw after the loop
LoopHead(q) ==
    IF q.attempt < q.maxRetries
    THEN [q EXCEPT !.fetchCalls = @ + 1, !.pc = "awaitFetch"]
    ELSE FwbThrow(q, GenericError)

FetchWithBackoff(q, maxRetries, baseDelay) ==
    LoopHead([q EXCEPT !.maxRetries = maxRetries, !.baseDelay = baseDelay, !.attempt = 0])

\* the try block and its catch: the way the attempt leaves them
Classify(q, o) ==
    IF o.t = "throw"
    THEN [exit |-> "catch", message |-> o.message]
    ELSE IF Ok(o.status)
    THEN [exit |-> "return", message |-> ""]
    ELSE IF o.status >= 400 /\ o.status < 500
    THEN [exit |-> "catch", message |-> ClientError(o.status)]
    ELSE IF o.status = 429
    THEN [exit |-> "rate", message |-> "Rate limited. Retrying with backoff..."]
    ELSE [exit |-> "server",
          message |-> "Server error: " \o ToString(o.status) \o ". Retrying with backoff..."]

Warn(q, c) ==
    IF c.exit = "catch"
    THEN Log(q, "warn",
             "Fetch attempt " \o ToString(q.attempt + 1) \o " failed with error: "
                 \o c.message \o ". Retrying...", Undefined)
    ELSE Log(q, "warn", c.message, Undefined)

\* the break taken one attempt late: a sleep follows the last attempt
AfterAttempt_BreakLate(q, jitter) ==
    IF q.attempt = q.maxRetries
    THEN FwbThrow(q, GenericError)
    ELSE [q EXCEPT !.delay = q.baseDelay * Pow2(q.attempt) + jitter,
                   !.sleeps = @ + 1,
                   !.pc = "awaitSleep"]

\* the timer promise not awaited: the next attempt follows at once
AfterAttempt_NoSleep(q, jitter) ==
    IF q.attempt = q.maxRetries - 1
    THEN FwbThrow(q, GenericError)
    ELSE LoopHead([q EXCEPT !.attempt = @ + 1])

\* after the try statement: break on the last attempt, else start the sleep
AfterAttempt(q, jitter) ==
    IF q.attempt = q.maxRetries - 1
    THEN FwbThrow(q, GenericError)
    ELSE [q EXCEPT !.delay = q.baseDelay * Pow2(q.attempt) + jitter,
                   !.sleeps = @ + 1,
                   !.pc = "awaitSleep"]

\* the return of the successful response left out
FetchSettled_NoReturn(q, o, jitter) ==
    LET q1 == [q EXCEPT !.outcomes = Append(@, o)]
    IN  AfterAttempt(Warn(q1, Classify(q1, o)), jitter)

\* fetchFn() outside the try: its rejection leaves fetchWithBackoff at once
FetchSettled_ThrowEscapes(q, o, jitter) ==
    LET q1 == [q EXCEPT !.outcomes = Append(@, o)]
        c == Classify(q1, o)
    IN  IF c.exit = "return" THEN FwbReturn(q1, o.status)
        ELSE IF o.t = "throw" THEN FwbThrow(q1, o.message)
        ELSE AfterAttempt(Warn(q1, c), jitter)

\* the client error thrown past the catch, to the caller
FetchSettled_ClientErrorEscapes(q, o, jitter) ==
    LET q1 == [q EXCEPT !.outcomes = Append(@, o)]
        c == Classify(q1, o)
    IN  IF c.exit = "return" THEN FwbReturn(q1, o.status)
        ELSE IF o.t = "response" /\ c.exit = "catch" THEN FwbThrow(q1, c.message)
        ELSE AfterAttempt(Warn(q1, c), jitter)

\* fetchFn() settled with outcome o
FetchSettled(q, o, jitter) ==
    LET q1 == [q EXCEPT !.outcomes = Append(@, o)]
        c == Classify(q1, o)
    IN  IF c.exit = "return" THEN FwbReturn(q1, o.status)
        ELSE AfterAttempt(Warn(q1, c), jitter)

\* the counter advanced by two after a sleep
SleepDone_DoubleIncrement(q) ==
    LoopHead([q EXCEPT !.attempt = @ + 2, !.delay = NoDelay])

\* the timer fired: attempt++ and back to the while condition
SleepDone(q) ==
    LoopHead([q EXCEPT !.attempt = @ + 1, !.delay = NoDelay])

(***************************************************************************)
(* GET /get-price/:name with the retry loop                                *)
(***************************************************************************)
\* the inner catch without the line that logs the raw text
ParseCatch_NoRawText(q, message) ==
    Send(Log(q, "error", "Failed to parse JSON response from AI:", Msg(message)),
         500, [error |-> Msg(ParseMessage)])

\* the inner catch asking the upstream again instead of answering
ParseCatch_Retry(q, message) ==
    FetchWithBackoff(Log(q, "error", "Failed to parse JSON response from AI:", Msg(message)),
                     DefaultMaxRetries, DefaultBaseDelay)

\* the inner catch (parseError)
ParseCatch(q, message) ==
    Send(Log(Log(q, "error", "Failed to parse JSON response from AI:", Msg(message)),
             "error", "Raw text was:", q.jsonText),
         500, [error |-> Msg(ParseMessage)])

\* the test that the closing brace follows the opening one left out
ParseBlock_NoOrderCheck(q, jsonText) ==
    IF jsonText.t # "string" THEN ParseCatch(q, IndexOfTypeError)
    ELSE LET startIndex == IndexOf(jsonText.s, "{")
             endIndex == LastIndexOf(jsonText.s, "}")
             q1 == [q EXCEPT !.braceSearches = @ + 1]
         IN  IF startIndex = 0 - 1 \/ endIndex = 0 - 1
             THEN ParseCatch(q1, NoObjectError)
             ELSE LET cleanedJsonText == Substring(jsonText.s, startIndex, endIndex + 1)
                      parsedJson == JSONParse(cleanedJsonText)
                      q2 == [q1 EXCEPT !.cleanedJsonText = Str(cleanedJsonText),
                                       !.parseCalls = @ + 1]
                  IN  IF parsedJson.ok THEN Send(q2, 200, parsedJson.val)
                      ELSE ParseCatch(q2, ParseSyntaxError)

\* the slice taken up to endIndex, its closing brace cut off
ParseBlock_SliceShort(q, jsonText) ==
    IF jsonText.t # "string" THEN ParseCatch(q, IndexOfTypeError)
    ELSE LET startIndex == IndexOf(jsonText.s, "{")
             endIndex == LastIndexOf(jsonText.s, "}")
             q1 == [q EXCEPT !.braceSearches = @ + 1]
         IN  IF startIndex = 0 - 1 \/ endIndex = 0 - 1 \/ endIndex < startIndex
             THEN ParseCatch(q1, NoObjectError)
             ELSE LET cleanedJsonText == Substring(jsonText.s, startIndex, endIndex)
                      parsedJson == JSONParse(cleanedJsonText)
                      q2 == [q1 EXCEPT !.cleanedJsonText = Str(cleanedJsonText),
                                       !.parseCalls = @ + 1]
                  IN  IF parsedJson.ok THEN Send(q2, 200, parsedJson.val)
                      ELSE ParseCatch(q2, ParseSyntaxError)

\* the inner try: brace search, slice, JSON.parse, 200
ParseBlock(q, jsonText) ==
    IF jsonText.t # "string" THEN ParseCatch(q, IndexOfTypeError)
    ELSE LET startIndex == IndexOf(jsonText.s, "{")
             endIndex == LastIndexOf(jsonText.s, "}")
             q1 == [q EXCEPT !.braceSearches = @ + 1]
         IN  IF startIndex = 0 - 1 \/ endIndex = 0 - 1 \/ endIndex < startIndex
             THEN ParseCatch(q1, NoObjectError)
             ELSE LET cleanedJsonText == Substring(jsonText.s, startIndex, endIndex + 1)
                      parsedJson == JSONParse(cleanedJsonText)
                      q2 == [q1 EXCEPT !.cleanedJsonText = Str(cleanedJsonText),
                                       !.parseCalls = @ + 1]
                  IN  IF parsedJson.ok THEN Send(q2, 200, parsedJson.val)
                      ELSE ParseCatch(q2, ParseSyntaxError)

\* the envelope check testing the candidate only, not its text
JsonSettled_NoTextCheck(q, b) ==
    IF b = Rejected THEN HandlerCatch(q, BodySyntaxError)
    ELSE IF IsNullish(b) THEN HandlerCatch([q EXCEPT !.result = b], ResultTypeError)
    ELSE LET q1 == [q EXCEPT !.result = b]
             candidate == OptAt(Get(b, "candidates"), 0)
             text == OptGet(OptAt(OptGet(Get(candidate, "content"), "parts"), 0), "text")
         IN  IF Truthy(candidate)
             THEN ParseBlock(Log([q1 EXCEPT !.jsonText = text],
                                 "log", "AI Response (Raw JSON Text):", text), text)
             ELSE Send(Log(q1, "error", "Invalid AI response structure:", b),
                       500, [error |-> Msg(StructureMessage)])

\* response.json() settled with b: envelope check, then the inner try
JsonSettled(q, b) ==
    IF b = Rejected THEN HandlerCatch(q, BodySyntaxError)
    ELSE IF IsNullish(b) THEN HandlerCatch([q EXCEPT !.result = b], ResultTypeError)
    ELSE LET q1 == [q EXCEPT !.result = b]
             candidate == OptAt(Get(b, "candidates"), 0)
             text == OptGet(OptAt(OptGet(Get(candidate, "content"), "parts"), 0), "text")
         IN  IF Truthy(candidate) /\ Truthy(text)
             THEN ParseBlock(Log([q1 EXCEPT !.jsonText = text],
                                 "log", "AI Response (Raw JSON Text):", text), text)
             ELSE Send(Log(q1, "error", "Invalid AI response structure:", b),
                       500, [error |-> Msg(StructureMessage)])

\* the credential check left out
GetPrice_NoKeyCheck(q) ==
    FetchWithBackoff(Log(q, "log", "Fetching price for: ...", Undefined),
                     DefaultMaxRetries, DefaultBaseDelay)

\* the credential answer sent without returning from the handler
GetPrice_NoReturn(q) ==
    IF ~Truthy(env)
    THEN FetchWithBackoff(
             Send(Log(q, "error", "GEMINI_API_KEY is not set in your .env file.", Undefined),
                  500, [error |-> Msg(ConfigMessage)]),
             DefaultMaxRetries, DefaultBaseDelay)
    ELSE FetchWithBackoff(Log(q, "log", "Fetching price for: ...", Undefined),
                          DefaultMaxRetries, DefaultBaseDelay)

\* the handler up to its first await
GetPrice(q) ==
    IF ~Truthy(env)
    THEN Send(Log(q, "error", "GEMINI_API_KEY is not set in your .env file.", Undefined),
              500, [error |-> Msg(ConfigMessage)])
    ELSE FetchWithBackoff(Log(q, "log", "Fetching price for: ...", Undefined),
                          DefaultMaxRetries, DefaultBaseDelay)

(***************************************************************************)
(* GET /get-price/:name through the SDK (index.js)                         *)
(***************************************************************************)
GetPriceSdk(q) ==
    IF ~Truthy(env)
    THEN Send(Log(q, "error", "GEMINI_API_KEY is not set in environment variables.",
                  Undefined),
              500, [error |-> Msg(SdkConfigMessage)])
    ELSE [q EXCEPT !.sdkCalls = @ + 1, !.pc = "awaitGenerate"]

GenerateSettled(q, g) ==
    IF g = Rejected THEN HandlerCatch(q, TransportError)
    ELSE Send(Log(q, "log", "AI Response:", Get(g, "text")), 200,
              [explanation |-> Get(g, "text")])

(***************************************************************************)
(* Actions.                                                                *)
(***************************************************************************)
\* the attempt counter kept in one variable shared by all invocations
Resume_SharedAttempt(r, q) ==
    /\ req' = [x \in Reqs |-> IF x = r THEN q ELSE [req[x] EXCEPT !.attempt = q.attempt]]
    /\ UNCHANGED env

\* an invocation resumes and changes its own locals and response only
Resume(r, q) == req' = [req EXCEPT ![r] = q] /\ UNCHANGED env

GetPriceHandler(r) ==
    /\ req[r].pc = "new" /\ req[r].kind = "getPrice"
    /\ Resume(r, GetPrice(req[r]))

GetPriceSdkHandler(r) ==
    /\ req[r].pc = "new" /\ req[r].kind = "getPriceSdk"
    /\ Resume(r, GetPriceSdk(req[r]))

CallFetchWithBackoff(r) ==
    /\ req[r].pc = "new" /\ req[r].kind = "fetchWithBackoff"
    /\ Resume(r, FetchWithBackoff(req[r], req[r].maxRetries, req[r].baseDelay))

FetchFnSettles(r) ==
    /\ req[r].pc = "awaitFetch"
    /\ \E o \in Outcomes, jitter \in JitterSamples :
           Resume(r, FetchSettled(req[r], o, jitter))

TimerFires(r) ==
    /\ req[r].pc = "awaitSleep"
    /\ Resume(r, SleepDone(req[r]))

ResponseJsonSettles(r) ==
    /\ req[r].pc = "awaitJson"
    /\ \E b \in Bodies : Resume(r, JsonSettled(req[r], b))

GenerateContentSettles(r) ==
    /\ req[r].pc = "awaitGenerate"
    /\ \E g \in Generated : Resume(r, GenerateSettled(req[r], g))

Step(r) ==
    \/ GetPriceHandler(r)
    \/ GetPriceSdkHandler(r)
    \/ CallFetchWithBackoff(r)
    \/ FetchFnSettles(r)
    \/ TimerFires(r)
    \/ ResponseJsonSettles(r)
    \/ GenerateContentSettles(r)

\* the calls a request slot can hold
Calls ==
    {NewRequest("getPrice", 0, 0), NewRequest("getPriceSdk", 0, 0)}
        \cup {NewRequest("fetchWithBackoff", m, b) :
                  m \in MinRetries..MaxRetriesBound, b \in BaseDelays}

Absent == NewRequest("absent", 0, 0)

\* one request at a time
Init ==
    /\ env \in Keys
    /\ \E c \in Calls : req = [r \in Reqs |-> IF r = 1 THEN c ELSE Absent]

Next == Step(1)

Spec == Init /\ [][Next]_vars

\* fetchWithBackoff alone, every awaited promise settling in the end
InitFwb ==
    /\ env \in Keys
    /\ \E m \in MinRetries..MaxRetriesBound, b \in BaseDelays :
           req = [r \in Reqs |->
                      IF r = 1 THEN NewRequest("fetchWithBackoff", m, b) ELSE Absent]

NextFwb ==
    \/ CallFetchWithBackoff(1)
    \/ FetchFnSettles(1)
    \/ TimerFires(1)

SpecFwb == InitFwb /\ [][NextFwb]_vars /\ WF_vars(NextFwb)

\* every slot holds an invocation of fetchWithBackoff; they interleave at
\* their awaits
InitConc ==
    /\ env = Str(<<"1">>)
    /\ req \in [Reqs -> {NewRequest("fetchWithBackoff", m, DefaultBaseDelay) :
                             m \in ConcRetries}]

StepConc(r) ==
    \/ CallFetchWithBackoff(r)
    \/ FetchFnSettles(r)
    \/ TimerFires(r)

NextConc == \E r \in Reqs : StepConc(r)

SpecConc == InitConc /\ [][NextConc]_vars

(***************************************************************************)
(* Properties.                                                             *)
(***************************************************************************)
UsesRetryLoop(q) == q.kind \in {"getPrice", "fetchWithBackoff"}

IsSuccess(o) == o.t = "response" /\ o.status \in 200..299

IsClientStatus(o) == o.t = "response" /\ o.status \in 400..499 /\ o.status # 429

IsServerStatus(o) == o.t = "response" /\ o.status \in 500..599

IsRetryableStatus(o) == o.t = "response" /\ (o.status = 429 \/ o.status \in 500..599)

IsThrow(o) == o.t = "throw"

\* fetchWithBackoff has thrown
Failed(q) == q.thrown # ""

\* C1: a response with a status in [400,499] other than 429 makes
\* fetchWithBackoff fail after exactly one invocation of fetchFn and without
\* any sleep, whatever maxRetries is.
C1_ClientErrorFailsFast ==
    \A r \in Reqs :
        LET q == req[r]
        IN  \A i \in 1..Len(q.outcomes) :
                IsClientStatus(q.outcomes[i])
                    => i = 1 /\ q.fetchCalls = 1 /\ q.sleeps = 0 /\ Failed(q)

\* C2: a response with a status in [200,299], from the first or any later
\* invocation of fetchFn, is the last outcome of the call and the response
\* returned; no sleep follows it and fetchFn is not invoked again.
C2_SuccessReturnsImmediately ==
    \A r \in Reqs :
        LET q == req[r]
        IN  \A i \in 1..Len(q.outcomes) :
                IsSuccess(q.outcomes[i])
                    => /\ i = Len(q.outcomes)
                       /\ q.returned = q.outcomes[i].status
                       /\ q.fetchCalls = i
                       /\ q.sleeps = i - 1
                       /\ q.pc \in {"awaitJson", "done"}
                       /\ ~Failed(q)

C2_Witness ==
    \E r \in Reqs :
        LET q == req[r]
        IN  /\ Len(q.outcomes) = 3
            /\ IsSuccess(q.outcomes[3])
            /\ q.returned = 299
            /\ q.pc = "done"

\* C3: with maxRetries >= 1 and every attempt answered by 429 or 5xx, the
\* call goes on until fetchFn has been invoked maxRetries times, then fails
\* with the terminal error after exactly maxRetries - 1 sleeps (5 attempts
\* and 4 sleeps for maxRetries = 5).
C3_RetryableExhaustsBudget ==
    \A r \in Reqs :
        LET q == req[r]
            n == Len(q.outcomes)
        IN  (/\ UsesRetryLoop(q)
             /\ q.maxRetries >= 1
             /\ q.pc # "new"
             /\ \A i \in 1..n : IsRetryableStatus(q.outcomes[i]))
                => IF n < q.maxRetries
                   THEN ~Failed(q) /\ q.pc \in {"awaitFetch", "awaitSleep"}
                   ELSE /\ n = q.maxRetries
                        /\ q.fetchCalls = q.maxRetries
                        /\ q.sleeps = q.maxRetries - 1
                        /\ q.thrown = GenericError
                        /\ q.pc = "done"

C3_Witness ==
    \E r \in Reqs :
        LET q == req[r]
        IN  /\ q.kind = "getPrice"
            /\ q.maxRetries = 5
            /\ Len(q.outcomes) = 5
            /\ \A i \in 1..5 : IsRetryableStatus(q.outcomes[i])
            /\ \E i \in 1..5 : q.outcomes[i].status = 429
            /\ q.sleeps = 4
            /\ Failed(q)

\* the envelope carries, as the text of its first candidate, a JSON object
ValidPayload(b) ==
    \E s \in Texts :
        /\ b = Envelope(<<Candidate(<<Part(Str(s))>>)>>)
        /\ JSONParse(s).ok
        /\ JSONParse(s).val.t = "object"

\* C4: n responses with a 5xx status followed by a 2xx response with a valid
\* payload, n < maxRetries, make the request perform n + 1 upstream attempts
\* and n sleeps and end with a 200 response (500, 500, 200: 2 sleeps).
C4_RecoversAfterServerErrors ==
    \A r \in Reqs :
        LET q == req[r]
            n == Len(q.outcomes) - 1
        IN  (/\ q.kind = "getPrice"
             /\ q.pc = "done"
             /\ n >= 0
             /\ n < q.maxRetries
             /\ \A i \in 1..n : IsServerStatus(q.outcomes[i])
             /\ IsSuccess(q.outcomes[n + 1])
             /\ ValidPayload(q.result))
                => /\ q.fetchCalls = n + 1
                   /\ q.sleeps = n
                   /\ Len(q.res) = 1
                   /\ q.res[1].status = 200

C4_Witness ==
    \E r \in Reqs :
        LET q == req[r]
        IN  /\ q.kind = "getPrice"
            /\ q.pc = "done"
            /\ Len(q.outcomes) = 3
            /\ q.outcomes[1].status = 500
            /\ q.outcomes[2].status = 500
            /\ q.outcomes[3].status = 200
            /\ ValidPayload(q.result)
            /\ q.sleeps = 2
            /\ q.res[1].status = 200

\* C5: without the API credential a /get-price request is answered with
\* status 500 and the configuration message, and no upstream call and no
\* sleep ever happen for it.
C5_MissingCredentialShortCircuits ==
    \A r \in Reqs :
        LET q == req[r]
        IN  (q.kind \in {"getPrice", "getPriceSdk"} /\ ~Truthy(env) /\ q.pc # "new")
                => /\ q.pc = "done"
                   /\ Len(q.res) = 1
                   /\ q.res[1].status = 500
                   /\ q.res[1].body \in {[error |-> Msg(ConfigMessage)],
                                         [error |-> Msg(SdkConfigMessage)]}
                   /\ q.fetchCalls = 0
                   /\ q.sdkCalls = 0
                   /\ q.sleeps = 0
                   /\ q.outcomes = <<>>

C5_Witness ==
    \E r \in Reqs :
        LET q == req[r]
        IN  /\ q.kind = "getPrice"
            /\ env = Undefined
            /\ q.pc = "done"
            /\ Len(q.res) = 1
            /\ q.fetchCalls = 0

\* the attempt that ended with outcome number n is followed by a sleep and a
\* further invocation of fetchFn while attempts remain, and by the failure of
\* the call when it was the last one
RetriedOrExhausted(q, n) ==
    IF n < q.maxRetries
    THEN /\ ~Failed(q)
         /\ q.res = <<>>
         /\ q.sleeps = n
         /\ \/ q.pc = "awaitSleep" /\ q.fetchCalls = n
            \/ q.pc = "awaitFetch" /\ q.fetchCalls = n + 1
    ELSE /\ Failed(q)
         /\ q.pc = "done"
         /\ q.fetchCalls = q.maxRetries
         /\ q.sleeps = q.maxRetries - 1

\* C6: an invocation of fetchFn that throws is retried exactly like a 5xx
\* response: a sleep and a further invocation follow unless it was the last
\* allowed attempt, and the call fails only when all maxRetries attempts are
\* used up.
C6_ThrownErrorIsRetried ==
    \A r \in Reqs :
        LET q == req[r]
            n == Len(q.outcomes)
        IN  (UsesRetryLoop(q) /\ n >= 1)
                => /\ (IsThrow(q.outcomes[n]) \/ IsServerStatus(q.outcomes[n]))
                          => RetriedOrExhausted(q, n)
                   /\ ((\E i \in 1..n : IsThrow(q.outcomes[i])) /\ Failed(q))
                          => n = q.maxRetries /\ q.fetchCalls = q.maxRetries

C6_Witness ==
    \E r \in Reqs :
        LET q == req[r]
        IN  /\ q.maxRetries = 3
            /\ Len(q.outcomes) = 2
            /\ IsThrow(q.outcomes[1])
            /\ IsThrow(q.outcomes[2])
            /\ q.pc = "awaitFetch"
            /\ q.fetchCalls = 3

\* C7: the sleep before attempt k+1 lasts baseDelay * 2^k + jitter with
\* 0 <= jitter < 1000, and the attempt counter is the number of completed
\* sleeps: it grows by one per sleep.
C7_DelaySchedule ==
    \A r \in Reqs :
        LET q == req[r]
            k == q.fetchCalls - 1
        IN  UsesRetryLoop(q)
                => IF q.pc = "awaitSleep"
                   THEN /\ q.delay >= q.baseDelay * (2 ^ k)
                        /\ q.delay < q.baseDelay * (2 ^ k) + 1000
                        /\ q.attempt = k
                        /\ q.sleeps = q.attempt + 1
                   ELSE q.attempt = q.sleeps

C7_Witness ==
    \E r \in Reqs :
        LET q == req[r]
        IN  /\ q.pc = "awaitSleep"
            /\ q.baseDelay = 1000
            /\ q.fetchCalls = 4
            /\ q.delay = 8999

\* the text of the first part of the first candidate of an envelope
FirstText(b) == b.f.candidates.items[1].f.content.f.parts.items[1].f.text

\* C8: a 200 response is sent only after the retry loop returned a response
\* with a status in [200,299], the first candidate held a non-empty text and
\* the slice of that text parsed as JSON; fetchWithBackoff never returns a
\* response with another status.
C8_SuccessOnlyFromValidResponse ==
    \A r \in Reqs :
        LET q == req[r]
        IN  UsesRetryLoop(q)
                => /\ (q.returned # 0 \/ q.pc = "awaitJson")
                          => /\ q.returned \in 200..299
                             /\ q.outcomes[Len(q.outcomes)].status = q.returned
                   /\ \A i \in 1..Len(q.res) :
                          q.res[i].status = 200
                              => /\ q.returned \in 200..299
                                 /\ q.jsonText = FirstText(q.result)
                                 /\ q.jsonText.t = "string"
                                 /\ q.jsonText.s # <<>>
                                 /\ q.parseCalls = 1
                                 /\ JSONParse(q.cleanedJsonText.s).ok
                                 /\ q.res[i].body = JSONParse(q.cleanedJsonText.s).val

C8_Witness ==
    \E r \in Reqs :
        LET q == req[r]
        IN  /\ q.kind = "getPrice"
            /\ q.pc = "done"
            /\ q.res[1].status = 200
            /\ q.returned = 299
            /\ Len(q.outcomes) = 2
            /\ q.jsonText = Str(<<"1", "{", "\"", "1", "\"", ":", "1", "}", "1">>)

IsHandler(q) == q.kind \in {"getPrice", "getPriceSdk"}

\* C9 as stated: every failure of the pipeline is answered with status 500
\* and a body of the shape { error, details }.
C9_UniformErrorBody ==
    \A r \in Reqs :
        LET q == req[r]
        IN  IsHandler(q)
                => \A i \in 1..Len(q.res) :
                       q.res[i].status # 200
                           => /\ q.res[i].status = 500
                              /\ DOMAIN q.res[i].body = {"error", "details"}

\* C9 amended: every failure is answered with status 500 and a body with an
\* error message; details is present exactly when the outer catch answered
\* (fetchWithBackoff threw, the body could not be decoded or was null, the
\* SDK call was rejected), and absent for a missing credential, an invalid
\* envelope and a parse failure.
C9_ErrorBodyShape ==
    \A r \in Reqs :
        LET q == req[r]
        IN  (IsHandler(q) /\ q.pc = "done")
                => /\ Len(q.res) = 1
                   /\ q.res[1].status \in {200, 500}
                   /\ q.res[1].status = 500
                          => LET body == q.res[1].body
                             IN  /\ "error" \in DOMAIN body
                                 /\ DOMAIN body \subseteq {"error", "details"}
                                 /\ ~Truthy(env)
                                        => body \in {[error |-> Msg(ConfigMessage)],
                                                     [error |-> Msg(SdkConfigMessage)]}
                                 /\ Failed(q)
                                        => body = [error |-> Msg(UpstreamMessage),
                                                   details |-> Msg(q.thrown)]
                                 /\ (q.returned # 0 /\ IsNullish(q.result))
                                        => /\ body.error = Msg(UpstreamMessage)
                                           /\ "details" \in DOMAIN body
                                 /\ q.sdkCalls = 1
                                        => /\ body.error = Msg(UpstreamMessage)
                                           /\ "details" \in DOMAIN body
                                 /\ (q.result.t = "object" /\ q.jsonText = Undefined)
                                        => body = [error |-> Msg(StructureMessage)]
                                 /\ q.jsonText # Undefined
                                        => body = [error |-> Msg(ParseMessage)]

C9_Witness ==
    \E r \in Reqs :
        LET q == req[r]
        IN  /\ q.kind = "getPrice"
            /\ q.pc = "done"
            /\ Failed(q)
            /\ q.res = <<[status |-> 500,
                          body |-> [error |-> Msg(UpstreamMessage),
                                    details |-> Msg(GenericError)]]>>

\* JSON.parse was called on the slice and threw
ParseFailed(q) == q.parseCalls = 1 /\ ~JSONParse(q.cleanedJsonText.s).ok

\* C10 as stated: when the slice fails to parse, the failure surfaced by the
\* extractor is a parse failure that carries the original raw text.
C10_ParseFailureCarriesRawText ==
    \A r \in Reqs :
        LET q == req[r]
        IN  (ParseFailed(q) /\ q.pc = "done")
                => /\ Len(q.res) = 1
                   /\ q.res[1].status = 500
                   /\ \E k \in DOMAIN q.res[1].body : q.res[1].body[k] = q.jsonText

\* C10 amended: when the slice fails to parse, the request is answered with
\* 500 and only the fixed parse-failure message; the parser's message and the
\* original raw text go to the error log and are not part of the response.
C10_ParseFailureLogsRawText ==
    \A r \in Reqs :
        LET q == req[r]
            n == Len(q.console)
        IN  (ParseFailed(q) /\ q.pc = "done")
                => /\ q.res = <<[status |-> 500, body |-> [error |-> Msg(ParseMessage)]]>>
                   /\ q.jsonText = FirstText(q.result)
                   /\ n >= 2
                   /\ q.console[n - 1] = [level |-> "error",
                                          msg |-> "Failed to parse JSON response from AI:",
                                          value |-> Msg(ParseSyntaxError)]
                   /\ q.console[n] = [level |-> "error",
                                      msg |-> "Raw text was:",
                                      value |-> q.jsonText]

C10_Witness ==
    \E r \in Reqs :
        LET q == req[r]
        IN  /\ q.pc = "done"
            /\ ParseFailed(q)
            /\ q.jsonText = Str(<<"\"", "{", "\"", "1", "\"", "}", "\"">>)
            /\ q.cleanedJsonText = Str(<<"{", "\"", "1", "\"", "}">>)
            /\ q.res[1].status = 500

\* the text has no opening brace, no closing brace, or only closing braces
\* before its first opening brace
NoBracePair(s) ==
    \/ \A i \in 1..Len(s) : s[i] # "{"
    \/ \A j \in 1..Len(s) : s[j] # "}"
    \/ \A i, j \in 1..Len(s) : (s[i] = "{" /\ s[j] = "}") => j < i

\* C11: a text with no '{', no '}' or its last '}' before its first '{' makes
\* the extraction fail with the no-object reason, without any call of
\* JSON.parse, and the request is answered with 500.
C11_NoObjectFound ==
    \A r \in Reqs :
        LET q == req[r]
            n == Len(q.console)
        IN  (/\ q.pc = "done"
             /\ q.jsonText.t = "string"
             /\ NoBracePair(q.jsonText.s))
                => /\ q.parseCalls = 0
                   /\ q.cleanedJsonText = Undefined
                   /\ Len(q.res) = 1
                   /\ q.res[1].status = 500
                   /\ q.console[n - 1] = [level |-> "error",
                                          msg |-> "Failed to parse JSON response from AI:",
                                          value |-> Msg(NoObjectError)]

C11_Witness ==
    \E r \in Reqs :
        LET q == req[r]
        IN  /\ q.pc = "done"
            /\ q.jsonText = Str(<<"}", "1", "{">>)
            /\ q.braceSearches = 1
            /\ q.res[1].status = 500

\* the body is an object without a usable text in its first candidate: no
\* candidate list or an empty one, a first candidate without content, parts
\* or text, or an empty text
NoExtractableText(b) ==
    /\ b.t = "object"
    /\ \/ "candidates" \notin DOMAIN b.f
       \/ b.f.candidates.items = <<>>
       \/ LET c == b.f.candidates.items[1]
          IN  \/ c.t # "object"
              \/ "content" \notin DOMAIN c.f
              \/ "parts" \notin DOMAIN c.f.content.f
              \/ c.f.content.f.parts.items = <<>>
              \/ "text" \notin DOMAIN c.f.content.f.parts.items[1].f
              \/ c.f.content.f.parts.items[1].f.text = Str(<<>>)

C13_NoRetryAfterReturn ==
    [][\A r \in Reqs :
           req[r].returned # 0
               => /\ req'[r].fetchCalls = req[r].fetchCalls
                  /\ req'[r].sleeps = req[r].sleeps
                  /\ req'[r].outcomes = req[r].outcomes
                  /\ req'[r].pc \in {"awaitJson", "done"}]_vars

C13_Witness ==
    \E r \in Reqs :
        LET q == req[r]
        IN  /\ q.kind = "getPrice"
            /\ q.pc = "done"
            /\ q.returned = 200
            /\ q.fetchCalls = 2
            /\ q.parseCalls = 1
            /\ q.res[1].body = [error |-> Msg(ParseMessage)]

\* 1-based positions of the first opening and the last closing brace
FirstOpen(s) == CHOOSE i \in 1..Len(s) : s[i] = "{" /\ \A k \in 1..(i - 1) : s[k] # "{"

LastClose(s) == CHOOSE j \in 1..Len(s) : s[j] = "}" /\ \A k \in (j + 1)..Len(s) : s[k] # "}"

\* C15: with the first '{' at i and the last '}' at j >= i, JSON.parse gets
\* exactly the characters i..j, and when that slice parses the answer is 200
\* with the parsed value, whatever members it has.
C15_SliceIsParsedAsIs ==
    \A r \in Reqs :
        LET q == req[r]
        IN  (q.pc = "done" /\ q.jsonText.t = "string" /\ ~NoBracePair(q.jsonText.s))
                => LET s == q.jsonText.s
                       i == FirstOpen(s)
                       j == LastClose(s)
                       slice == [k \in 1..(j - i + 1) |-> s[i + k - 1]]
                   IN  /\ j >= i
                       /\ q.parseCalls = 1
                       /\ q.cleanedJsonText = Str(slice)
                       /\ JSONParse(slice).ok
                              => q.res = <<[status |-> 200, body |-> JSONParse(slice).val]>>

C15_Witness ==
    \E r \in Reqs :
        LET q == req[r]
        IN  /\ q.pc = "done"
            /\ q.jsonText = Str(<<"1", "{", "\"", "1", "\"", ":", "1", "}", "1">>)
            /\ q.cleanedJsonText = Str(<<"{", "\"", "1", "\"", ":", "1", "}">>)
            /\ q.res = <<[status |-> 200, body |-> Obj(<<"1">> :> Num(1))]>>

\* C16: whatever made the attempts fail, the error fetchWithBackoff throws is
\* the generic max-retries error, and that is the details the client gets.
C16_OnlyGenericErrorSurfaces ==
    \A r \in Reqs :
        LET q == req[r]
        IN  (UsesRetryLoop(q) /\ Failed(q))
                => /\ q.thrown = GenericError
                   /\ q.kind = "getPrice"
                          => q.res = <<[status |-> 500,
                                        body |-> [error |-> Msg(UpstreamMessage),
                                                  details |-> Msg(GenericError)]]>>

C16_Witness ==
    \E r \in Reqs :
        LET q == req[r]
        IN  /\ q.kind = "getPrice"
            /\ Failed(q)
            /\ Len(q.outcomes) = 5
            /\ IsClientStatus(q.outcomes[1])
            /\ IsThrow(q.outcomes[5])
            /\ q.res[1].body.details = Msg(GenericError)

\* C18: a handler that has run to its end has sent exactly one response, and
\* one that has not has sent none.
C18_ExactlyOneResponse ==
    \A r \in Reqs :
        LET q == req[r]
        IN  IsHandler(q) => Len(q.res) = (IF q.pc = "done" THEN 1 ELSE 0)

C18_Witness ==
    \E r \in Reqs :
        LET q == req[r]
        IN  /\ q.kind = "getPrice"
            /\ q.pc = "done"
            /\ q.returned = 200
            /\ q.result = Undefined
            /\ Len(q.res) = 1
            /\ q.res[1].body.details = Msg(BodySyntaxError)

\* C19: with maxRetries <= 0 fetchWithBackoff throws the max-retries error
\* without any invocation of fetchFn and without any sleep.
C19_NoAttemptWithoutBudget ==
    \A r \in Reqs :
        LET q == req[r]
        IN  (q.kind = "fetchWithBackoff" /\ q.maxRetries <= 0 /\ q.pc # "new")
                => /\ q.pc = "done"
                   /\ q.thrown = GenericError
                   /\ q.returned = 0
                   /\ q.fetchCalls = 0
                   /\ q.sleeps = 0
                   /\ q.outcomes = <<>>

C19_Witness ==
    \E r \in Reqs :
        LET q == req[r]
        IN  /\ q.kind = "fetchWithBackoff"
            /\ q.maxRetries = 0
            /\ q.pc = "done"
            /\ q.thrown = GenericError
            /\ q.fetchCalls = 0

\* the counters, the delay and the end of an invocation as its own outcomes
\* alone fix them
OwnOutcomesDecide(q) ==
    LET n == Len(q.outcomes)
    IN  IF q.pc = "new"
        THEN n = 0 /\ q.fetchCalls = 0 /\ q.sleeps = 0 /\ q.attempt = 0
        ELSE IF n >= 1 /\ IsSuccess(q.outcomes[n])
        THEN /\ q.pc = "done"
             /\ q.returned = q.outcomes[n].status
             /\ ~Failed(q)
             /\ q.fetchCalls = n
             /\ q.sleeps = n - 1
             /\ q.attempt = n - 1
        ELSE IF n = q.maxRetries
        THEN /\ q.pc = "done"
             /\ q.thrown = GenericError
             /\ q.returned = 0
             /\ q.fetchCalls = n
             /\ q.sleeps = n - 1
             /\ q.attempt = n - 1
        ELSE /\ n < q.maxRetries
             /\ ~Failed(q)
             /\ q.returned = 0
             /\ q.sleeps = n
             /\ \/ /\ q.pc = "awaitFetch"
                   /\ q.fetchCalls = n + 1
                   /\ q.attempt = n
                \/ /\ q.pc = "awaitSleep"
                   /\ q.fetchCalls = n
                   /\ q.attempt = n - 1
                   /\ q.delay - q.baseDelay * (2 ^ (n - 1)) \in 0..999

\* C14: with invocations interleaved in any order, a step of one leaves the
\* others as they were, and the attempts, sleeps, delays and result of each
\* are those its own outcomes fix.
C14_RequestsAreIndependent ==
    [][\A r \in Reqs :
           /\ OwnOutcomesDecide(req'[r])
           /\ req'[r] # req[r] => \A x \in Reqs \ {r} : req'[x] = req[x]]_vars

C14_Witness ==
    /\ req[1].maxRetries = 2
    /\ req[1].thrown = GenericError
    /\ Len(req[1].outcomes) = 2
    /\ req[2].maxRetries = 2
    /\ req[2].pc = "awaitSleep"
    /\ req[2].attempt = 0
    /\ req[2].delay = 1500

\* a suspended invocation of fetchFn sees the counter equal to the number of
\* sleeps made and below maxRetries
InvocationInBudget(q) ==
    /\ q.fetchCalls <= (IF q.maxRetries > 0 THEN q.maxRetries ELSE 0)
    /\ q.pc = "awaitFetch" => q.attempt = q.sleeps /\ q.attempt < q.maxRetries

\* C17: if every fetchFn call and every sleep completes, fetchWithBackoff
\* returns or throws in the end, after at most maxRetries invocations of
\* fetchFn, each made with the counter equal to the number of completed
\* sleeps and below maxRetries.
C17_Terminates ==
    /\ [](\A r \in Reqs : InvocationInBudget(req[r]))
    /\ \A r \in Reqs :
           (req[r].kind = "fetchWithBackoff")
               ~> (req[r].pc = "done" /\ (req[r].returned # 0 \/ Failed(req[r])))

C17_Witness ==
    \E r \in Reqs :
        LET q == req[r]
        IN  /\ q.kind = "fetchWithBackoff"
            /\ q.maxRetries = 3
            /\ q.pc = "awaitFetch"
            /\ q.fetchCalls = 3
            /\ q.attempt = 2
            /\ q.sleeps = 2
====
